---- MODULE Spec2Model ----
(***************************************************************************)
(* Resumable workflow engine of instagram_automation: the driver           *)
(* scripts/run_orchestrator.py, the orchestrator                           *)
(* create_post_from_scratch_orchestrator, its use cases, the file-backed   *)
(* workflow repository (optimistic version check under a per-run file      *)
(* lock) and the file-backed atomic state store.                           *)
(*                                                                         *)
(* One run directory is modelled.  Each worker is one driver process; its  *)
(* position in main() is pc[w] and its in-memory WorkflowRun is run[w].    *)
(* The orchestrator is split at its await points: one action per guarded   *)
(* block, the except handler being part of the block that raises.          *)
(***************************************************************************)
EXTENDS Integers, Sequences, FiniteSets, TLC

VARIABLES
    disk,            \* workflow_state.json of the run: [present, run]
    lock,            \* holder of workflow_state.json.lock, or NoWorker
    state_files,     \* atomic_states/*.json : file name -> stored mapping
    artifact_files,  \* atomic_states/* binary artifacts: set of file names
    pc,              \* per worker: position in main()
    run,             \* per worker: the in-memory WorkflowRun
    existing,        \* per worker: version read back by update() under the lock
    inv,             \* per worker: history of the current invocation (ghost)
    starts,          \* driver processes started so far
    saving,          \* per worker: the file write it is in the middle of
    seen,            \* per worker: what its last read of a stored file returned
    input,           \* arguments of the repository or utility call under examination
    result           \* what that call returned

vars == <<disk, lock, state_files, artifact_files, pc, run, existing, inv, starts,
          saving, seen, input, result>>

----------------------------------------------------------------------------
(* Bounds *)

\* number of driver processes the model starts
MaxStarts == 2

Workers == {"w1", "w2"}
NoWorker == "none"

----------------------------------------------------------------------------
(* Python dicts: functions from a finite set of keys to strings *)

EmptyDict == [k \in {} |-> ""]

\* dict.get(k) with None/"" both falsy
Get(d, k) == IF k \in DOMAIN d THEN d[k] ELSE ""

Put(d, k, v) == [x \in (DOMAIN d) \cup {k} |-> IF x = k THEN v ELSE d[x]]

\* dict.update(e)
Merge(d, e) == [x \in (DOMAIN d) \cup (DOMAIN e) |-> IF x \in DOMAIN e THEN e[x] ELSE d[x]]

Min(a, b) == IF a <= b THEN a ELSE b

----------------------------------------------------------------------------
(* Step registry *)

StepOrder == <<"dossier", "copy", "create_image", "edit_image">>

StepNames == {StepOrder[i] : i \in 1..Len(StepOrder)}

WORKFLOW_STEPS ==
    [dossier      |-> [step_key |-> "create_dossier", entry_state |-> "start"],
     copy         |-> [step_key |-> "generate_copy",  entry_state |-> "dossier_created"],
     create_image |-> [step_key |-> "create_image",   entry_state |-> "copy_created"],
     edit_image   |-> [step_key |-> "edit_image",     entry_state |-> "image_created"]]

\* the values current_step takes, in pipeline order
StateOrder == <<"start", "dossier_created", "copy_created", "image_created", "final_image_created">>

StateIndex(s) == CHOOSE i \in 1..Len(StateOrder) : StateOrder[i] = s

StepIndex(name) == CHOOSE i \in 1..Len(StepOrder) : StepOrder[i] = name

----------------------------------------------------------------------------
(* WorkflowStatus *)

PENDING == "PENDENTE"
RUNNING == "EM_EXECUCAO"
COMPLETED == "CONCLUIDO"
FAILED_RETRYABLE == "FALHOU_RETRIAVEL"
FAILED_PERMANENT == "FALHOU_PERMANENTE"

----------------------------------------------------------------------------
(* Backoff *)

NoTime == -1

BackoffBase == 2
BackoffMax == 8

\* variant without the cap
UncappedWait(attempt) == BackoffBase * (2 ^ attempt)

\* base wait min(base * 2^attempt, max); the run stores the wait it was given
GetNextRetryAt(attempt) == Min(BackoffBase * (2 ^ attempt), BackoffMax)

----------------------------------------------------------------------------
(* Atomic state store (FileStateRepository) *)

\* name_base after lower(), removal of [^\w\s-] and collapse of [\s_-]+ to "-",
\* for the keys and file names the workflow uses
SanitizedBase ==
    [create_dossier |-> "create-dossier",
     generate_copy  |-> "generate-copy",
     create_image   |-> "create-image",
     edit_image     |-> "edit-image",
     post_image     |-> "post-image",
     final_post     |-> "final-post",
     post_image_masked |-> "post-image-masked"]

\* name.rsplit('.', 1): <<base, extension>>, extension "" when there is no dot
SplitName ==
    [n \in {"create_dossier", "generate_copy", "create_image", "edit_image",
            "post_image.jpg", "final_post.jpg", "post-image-masked.jpg"} |->
        CASE n = "post_image.jpg"        -> <<"post_image", ".jpg">>
          [] n = "final_post.jpg"        -> <<"final_post", ".jpg">>
          [] n = "post-image-masked.jpg" -> <<"post_image_masked", ".jpg">>
          [] OTHER                       -> <<n, "">>]

_sanitize_filename(name, ext) ==
    LET parts == SplitName[name]
    IN  SanitizedBase[parts[1]] \o (IF parts[2] # "" THEN parts[2] ELSE ext)

\* content of a state file that is not a complete JSON document: what a write
\* that stopped after open(path, "w") leaves behind
Partial == [partial_write |-> "partial"]

\* load(): None when the file does not exist or json.loads rejects its content,
\* else the parsed mapping
Load(files, key) ==
    LET filename == _sanitize_filename(key, ".json")
    IN  IF filename \in DOMAIN files /\ files[filename] # Partial
        THEN [found |-> TRUE, data |-> files[filename]]
        ELSE [found |-> FALSE, data |-> EmptyDict]

\* `if cached_state`: None and {} are both falsy
Truthy(loaded) == loaded.found /\ DOMAIN loaded.data # {}

Save(files, key, data) ==
    LET filename == _sanitize_filename(key, ".json")
    IN  [f \in (DOMAIN files) \cup {filename} |-> IF f = filename THEN data ELSE files[f]]

\* the exception an I/O fault of the store raises (IOError is OSError)
StorageError == "OSError"

\* I/O faults of the store during one step: none, open() of the state file
\* fails, the write after open() fails, or the first save_artifact /
\* load_artifact of the step fails.  Each step draws from the faults of the
\* store operations it performs: save() only; save() and save_artifact();
\* load_artifact() and save_artifact()
SaveOutcomes == {"ok", "save_open_fails", "save_write_fails"}

ImageStoreOutcomes == SaveOutcomes \cup {"save_artifact_fails"}

EditStoreOutcomes == {"ok", "load_artifact_fails", "save_artifact_fails"}

SaveFails(store) == store \in {"save_open_fails", "save_write_fails"}

\* save() under a fault: nothing written when open() failed, a truncated file
\* when the write failed, else the new content
SaveUnder(store, files, key, data) ==
    CASE store = "save_open_fails"  -> files
      [] store = "save_write_fails" -> Save(files, key, Partial)
      [] OTHER                      -> Save(files, key, data)

SaveArtifact(arts, filename) == arts \cup {_sanitize_filename(filename, "")}

ArtifactExists(arts, filename) == _sanitize_filename(filename, "") \in arts

\* delete(): the two candidate paths, state JSON and same-named artifact
DeletePaths(key) == {_sanitize_filename(key, ".json"), _sanitize_filename(key, "")}

\* os.remove raises OSError for the files in `failing`; delete() logs and
\* swallows it, and those files stay
Removed(found, failing) == found \ failing

\* variant that sets was_deleted as soon as isfile() is true
FoundReported(files, arts, key, failing) ==
    LET found == {p \in DeletePaths(key) : p \in DOMAIN files \/ p \in arts}
        gone == Removed(found, failing)
    IN  [returned |-> found # {},
         files |-> [f \in (DOMAIN files) \ gone |-> files[f]],
         arts |-> arts \ gone]

\* delete(context, key): was_deleted, and the directory afterwards
delete(files, arts, key, failing) ==
    LET found == {p \in DeletePaths(key) : p \in DOMAIN files \/ p \in arts}
        gone == Removed(found, failing)
    IN  [returned |-> gone # {},
         files |-> [f \in (DOMAIN files) \ gone |-> files[f]],
         arts |-> arts \ gone]

----------------------------------------------------------------------------
(* Collaborator responses *)

Raises == [raises |-> TRUE, data |-> EmptyDict]

Returns(d) == [raises |-> FALSE, data |-> d]

\* content generator answering the dossier prompt
DossierResponses ==
    {Raises,
     Returns([dossie |-> "D", search_queries_used |-> "q"]),
     Returns([search_queries_used |-> "q"])}

\* content generator answering the copywriting prompt
CopyResponses ==
    {Raises,
     Returns([title |-> "T", description |-> "Desc"]),
     Returns([title |-> "T", description |-> "Desc", hashtags |-> "h"]),
     Returns([title |-> "T"])}

AllComponents ==
    [subject |-> "s", context_background |-> "b", style |-> "st",
     lighting |-> "l", camera_details |-> "c", quality_modifiers |-> "q"]

\* content generator answering the image_prompt_components prompt
ComponentResponses ==
    {Raises, Returns(AllComponents), Returns([subject |-> "s"])}

\* media generator: raises, or returns image bytes
MediaResponses == {"raise", "image"}

\* Pillow / Playwright in edit_image: fails before the masked image is saved,
\* fails after it, or renders
RenderOutcomes == {"mask_fails", "render_fails", "ok"}

----------------------------------------------------------------------------
(* Use cases.  Each returns                                                *)
(*   raised  : exception type name, "" when it returns                     *)
(*   value   : the returned mapping                                        *)
(*   files   : atomic state files afterwards                               *)
(*   cached  : a valid cache entry was found                               *)
(*   content : calls made to the content generator                         *)
(*   media   : calls made to the media generator                           *)
(***************************************************************************)

Outcome(raised, value, files, cached, content, media) ==
    [raised |-> raised, value |-> value, files |-> files,
     cached |-> cached, content |-> content, media |-> media]

\* a Python call binds when the keyword arguments passed are exactly the
\* parameters of the callee (none of the callees here has defaults or **kwargs);
\* otherwise it raises TypeError before the body runs
Binds(params, args) == params = args

\* parameters of get_contract in each prompt module
GetContractParams ==
    [dossier |-> {"theme"},
     copywriting |-> {"theme", "dossier"},
     image_prompt_components |-> {"theme", "copy_title", "copy_description"}]

\* get_prompt_contract(prompt_name, version, **kwargs): TRUE when the contract
\* is built, FALSE when get_contract(**kwargs) raises TypeError
get_prompt_contract(prompt_name, kwargs) == Binds(GetContractParams[prompt_name], kwargs)

DossierCacheValid(loaded) ==
    Truthy(loaded) /\ "dossie" \in DOMAIN loaded.data /\ loaded.data["dossie"] # ""

create_dossier_use_case(files, step_key, resp, store) ==
    LET loaded == Load(files, step_key)
    IN  IF DossierCacheValid(loaded)
        THEN Outcome("", [dossier |-> loaded.data["dossie"]], files, TRUE, 0, 0)
        ELSE IF ~get_prompt_contract("dossier", {"theme"})
        THEN Outcome("TypeError", EmptyDict, files, FALSE, 0, 0)
        ELSE IF resp.raises
        THEN Outcome("GeminiAPIError", EmptyDict, files, FALSE, 1, 0)
        ELSE LET saved == SaveUnder(store, files, step_key, resp.data)
             IN  IF SaveFails(store)
                 THEN Outcome(StorageError, EmptyDict, saved, FALSE, 1, 0)
                 ELSE IF Get(resp.data, "dossie") = ""
                 THEN Outcome("ValueError", EmptyDict, saved, FALSE, 1, 0)
                 ELSE Outcome("", [dossier |-> resp.data["dossie"]], saved, FALSE, 1, 0)

CopyCacheValid(loaded) ==
    Truthy(loaded) /\ "title" \in DOMAIN loaded.data /\ "description" \in DOMAIN loaded.data

copywriter_use_case(files, step_key, resp, store) ==
    LET loaded == Load(files, step_key)
    IN  IF CopyCacheValid(loaded)
        THEN Outcome("", [title |-> loaded.data["title"],
                          description |-> loaded.data["description"]], files, TRUE, 0, 0)
        ELSE IF ~get_prompt_contract("copywriting", {"theme", "dossier"})
        THEN Outcome("TypeError", EmptyDict, files, FALSE, 0, 0)
        ELSE IF resp.raises
        THEN Outcome("GeminiAPIError", EmptyDict, files, FALSE, 1, 0)
        ELSE LET saved == SaveUnder(store, files, step_key, resp.data)
             IN  IF SaveFails(store)
                 THEN Outcome(StorageError, EmptyDict, saved, FALSE, 1, 0)
                 ELSE IF ~({"title", "description"} \subseteq DOMAIN resp.data)
                 THEN Outcome("ValueError", EmptyDict, saved, FALSE, 1, 0)
                 ELSE Outcome("", resp.data, saved, FALSE, 1, 0)

RequiredComponents ==
    {"subject", "context_background", "style", "lighting", "camera_details", "quality_modifiers"}

\* "" stands for the ValueError raised on missing components
_build_final_image_prompt(components) ==
    IF RequiredComponents \subseteq DOMAIN components THEN "prompt" ELSE ""

ImageCacheValid(loaded) == Truthy(loaded) /\ "final_image_prompt" \in DOMAIN loaded.data

\* phase 3 of create_image_use_case: the media generator is invoked whenever a
\* final prompt is known, cached or not
GenerateImage(final_prompt, files, cached, content, mediaResp) ==
    IF final_prompt = ""
    THEN Outcome("ValueError", EmptyDict, files, cached, content, 0)
    ELSE IF mediaResp = "raise"
    THEN Outcome("ImageGenerationError", EmptyDict, files, cached, content, 1)
    ELSE Outcome("", [image_bytes |-> "image"], files, cached, content, 1)

\* variant that never consults the cached prompt
create_image_uncached(files, step_key, resp, mediaResp, store) ==
    IF ~get_prompt_contract("image_prompt_components",
                            {"dossier", "copy_title", "copy_description"})
    THEN Outcome("TypeError", EmptyDict, files, FALSE, 0, 0)
    ELSE IF resp.raises
    THEN Outcome("GeminiAPIError", EmptyDict, files, FALSE, 1, 0)
    ELSE LET final_prompt == _build_final_image_prompt(resp.data)
         IN  IF final_prompt = ""
             THEN Outcome("ValueError", EmptyDict, files, FALSE, 1, 0)
             ELSE IF SaveFails(store)
             THEN Outcome(StorageError, EmptyDict,
                          SaveUnder(store, files, step_key, [final_image_prompt |-> final_prompt]),
                          FALSE, 1, 0)
             ELSE GenerateImage(final_prompt,
                                Save(files, step_key, [final_image_prompt |-> final_prompt]),
                                FALSE, 1, mediaResp)

create_image_use_case(files, step_key, resp, mediaResp, store) ==
    LET loaded == Load(files, step_key)
    IN  IF ImageCacheValid(loaded)
        THEN GenerateImage(loaded.data["final_image_prompt"], files, TRUE, 0, mediaResp)
        ELSE IF ~get_prompt_contract("image_prompt_components",
                                     {"dossier", "copy_title", "copy_description"})
        THEN Outcome("TypeError", EmptyDict, files, FALSE, 0, 0)
        ELSE IF resp.raises
        THEN Outcome("GeminiAPIError", EmptyDict, files, FALSE, 1, 0)
        ELSE LET final_prompt == _build_final_image_prompt(resp.data)
             IN  IF final_prompt = ""
                 THEN Outcome("ValueError", EmptyDict, files, FALSE, 1, 0)
                 ELSE IF SaveFails(store)
                 THEN Outcome(StorageError, EmptyDict,
                              SaveUnder(store, files, step_key, [final_image_prompt |-> final_prompt]),
                          FALSE, 1, 0)
                 ELSE GenerateImage(final_prompt,
                                    Save(files, step_key, [final_image_prompt |-> final_prompt]),
                                    FALSE, 1, mediaResp)

\* edit_image_use_case touches artifacts only: [raised, arts]
edit_image_use_case(arts, render, store) ==
    IF render = "mask_fails"
    THEN [raised |-> "IOError", arts |-> arts]
    ELSE IF store = "save_artifact_fails"
    THEN [raised |-> StorageError, arts |-> arts]
    ELSE LET masked == SaveArtifact(arts, "post-image-masked.jpg")
         IN  IF render = "render_fails"
             THEN [raised |-> "RuntimeError", arts |-> masked]
             ELSE [raised |-> "", arts |-> masked]

----------------------------------------------------------------------------
(* WorkflowRun *)

\* a run as the driver constructs it for --theme; streak is a history field:
\* the number of orchestrator invocations in a row that failed, with no step
\* advance and no rewind between them
NewRun ==
    [status |-> PENDING, current_step |-> "start", step_attempt |-> 0,
     last_error_msg |-> "", retry_at |-> NoTime, version |-> 0,
     state_data |-> EmptyDict, streak |-> 0]

\* existing_run is None (persisted versions start at 1)
NoVersion == 0

NoDisk == [present |-> FALSE, run |-> NewRun]

\* A run directory left by earlier sessions: persisted at copy_created after a
\* failed image generation, with the caches of the completed steps.  The
\* present sources cannot produce it (the copy step's call does not bind, see
\* StepCopy, nor does the contract of an uncached image prompt, see
\* create_image_use_case), so the steps after copy are exercised from this
\* snapshot.
ResumableRun ==
    [status |-> FAILED_RETRYABLE, current_step |-> "copy_created", step_attempt |-> 1,
     last_error_msg |-> "ImageGenerationError", retry_at |-> GetNextRetryAt(1),
     version |-> 2,
     state_data |-> [dossier_content |-> "D", title |-> "T", description |-> "Desc"],
     streak |-> 1]

ResumableFiles ==
    Save(Save(Save(EmptyDict,
        "create_dossier", [dossie |-> "D", search_queries_used |-> "q"]),
        "generate_copy", [title |-> "T", description |-> "Desc"]),
        "create_image", [final_image_prompt |-> "prompt"])

\* no call under examination
NoInput == [op |-> ""]

NoResult == [op |-> ""]

\* no save() in progress, no load() made
NoSave == [key |-> "", data |-> EmptyDict]

NoSeen == [key |-> "", found |-> FALSE, data |-> EmptyDict]

NoCall == [step |-> "", cached |-> FALSE, content |-> 0, media |-> 0]

\* target: the step of --rerun-step; raised: the exception the handler caught;
\* pre_attempt, pre_retry_at: step_attempt and retry_at when it was raised
NoInv ==
    [entry_step |-> "", entry_attempt |-> 0, base |-> 0, rewound |-> FALSE,
     first |-> "", failed_at |-> "", dossier_calls |-> 0, last |-> NoCall,
     target |-> "", raised |-> "", pre_attempt |-> 0, pre_retry_at |-> NoTime,
     entry_status |-> ""]

Init ==
    /\ lock = NoWorker
    /\ pc = [w \in Workers |-> "idle"]
    /\ run = [w \in Workers |-> NewRun]
    /\ existing = [w \in Workers |-> NoVersion]
    /\ inv = [w \in Workers |-> NoInv]
    /\ artifact_files = {}
    /\ starts = 0
    /\ saving = [w \in Workers |-> NoSave]
    /\ seen = [w \in Workers |-> NoSeen]
    /\ input = NoInput
    /\ result = NoResult
    /\ \/ disk = NoDisk /\ state_files = EmptyDict
       \/ disk = [present |-> TRUE, run |-> ResumableRun] /\ state_files = ResumableFiles

----------------------------------------------------------------------------
(* Driver: scripts/run_orchestrator.py main() *)

\* variant of create() that stores the version the caller passed
CreatedKeepingVersion(r) == r

\* create(): run.version = 1 before the write
Created(r) == [r EXCEPT !.version = 1]

\* --theme: create a new run
CreateRun(w) ==
    /\ pc[w] = "idle"
    /\ starts < MaxStarts
    /\ starts' = starts + 1
    /\ ~disk.present
    /\ LET created == Created(NewRun)
       IN  /\ run' = [run EXCEPT ![w] = created]
           /\ disk' = [present |-> TRUE, run |-> created]
           /\ inv' = [inv EXCEPT ![w] = [NoInv EXCEPT !.base = 1]]
    /\ pc' = [pc EXCEPT ![w] = "dispatch"]
    /\ UNCHANGED <<lock, state_files, artifact_files, existing, saving, seen, input, result>>

\* --run-id: get_by_id
GetById(w) ==
    /\ pc[w] = "idle"
    /\ starts < MaxStarts
    /\ starts' = starts + 1
    /\ disk.present
    /\ run' = [run EXCEPT ![w] = disk.run]
    /\ inv' = [inv EXCEPT ![w] = [NoInv EXCEPT !.base = disk.run.version]]
    /\ pc' = [pc EXCEPT ![w] = "loaded"]
    /\ UNCHANGED <<disk, lock, state_files, artifact_files, existing, saving, seen, input, result>>

\* variant without the cascade: only the named step is invalidated
OnlyTheStep(name) == {name}

\* step_order[step_index:]
StepsToInvalidate(name) == {StepOrder[i] : i \in StepIndex(name)..Len(StepOrder)}

\* keys handed to state_repo.delete by the invalidation loop
KeysToDelete(name) ==
    {WORKFLOW_STEPS[s].step_key : s \in StepsToInvalidate(name)}
    \cup (IF "edit_image" \in StepsToInvalidate(name)
          THEN {"post-image-masked.jpg", "final_post.jpg"} ELSE {})

\* variant that stores the step's name where its entry state belongs
RewoundToStepName(r, name) ==
    [r EXCEPT !.current_step = name,
              !.status = RUNNING,
              !.last_error_msg = "",
              !.retry_at = NoTime,
              !.step_attempt = 0,
              !.streak = 0]

\* variant that leaves the failure counter as it was
RewoundKeepingAttempt(r, name) ==
    [r EXCEPT !.current_step = WORKFLOW_STEPS[name].entry_state,
              !.status = RUNNING,
              !.last_error_msg = "",
              !.retry_at = NoTime,
              !.streak = 0]

\* variant that also empties state_data
RewoundClearingData(r, name) ==
    [r EXCEPT !.current_step = WORKFLOW_STEPS[name].entry_state,
              !.status = RUNNING,
              !.last_error_msg = "",
              !.retry_at = NoTime,
              !.step_attempt = 0,
              !.streak = 0,
              !.state_data = EmptyDict]

RewoundRun(r, name) ==
    [r EXCEPT !.current_step = WORKFLOW_STEPS[name].entry_state,
              !.status = RUNNING,
              !.last_error_msg = "",
              !.retry_at = NoTime,
              !.step_attempt = 0,
              !.streak = 0]

\* --rerun-step with a registered step name.  Every os.remove of the
\* invalidation loop succeeds here; removals that fail are explored in
\* DeleteSpec
Rewind(w, name) ==
    /\ pc[w] = "loaded"
    /\ name \in StepNames
    /\ LET paths == Removed(UNION {DeletePaths(k) : k \in KeysToDelete(name)}, {})
       IN  /\ state_files' = [f \in (DOMAIN state_files) \ paths |-> state_files[f]]
           /\ artifact_files' = artifact_files \ paths
    /\ run' = [run EXCEPT ![w] = RewoundRun(@, name)]
    /\ inv' = [inv EXCEPT ![w].rewound = TRUE, ![w].target = name]
    /\ pc' = [pc EXCEPT ![w] = "dispatch"]
    /\ UNCHANGED <<disk, lock, existing, starts, saving, seen, input, result>>

\* a name the registry does not know
UnregisteredStep == "publish"

\* variant that invalidates every step before it looks the name up
RewindInvalidAfterDeleting(w) ==
    /\ pc[w] = "loaded"
    /\ pc' = [pc EXCEPT ![w] = "idle"]
    /\ run' = [run EXCEPT ![w] = NewRun]
    /\ inv' = [inv EXCEPT ![w] = [NoInv EXCEPT !.target = UnregisteredStep]]
    /\ state_files' = EmptyDict
    /\ artifact_files' = {}
    /\ UNCHANGED <<disk, lock, existing, starts, saving, seen, input, result>>

\* --rerun-step with a name the registry does not know: main() returns.
\* inv.target keeps the name asked for until the slot starts another process
RewindInvalid(w) ==
    /\ pc[w] = "loaded"
    /\ pc' = [pc EXCEPT ![w] = "idle"]
    /\ run' = [run EXCEPT ![w] = NewRun]
    /\ inv' = [inv EXCEPT ![w] = [NoInv EXCEPT !.target = UnregisteredStep]]
    /\ UNCHANGED <<disk, lock, state_files, artifact_files, existing, starts, saving, seen, input, result>>

----------------------------------------------------------------------------
(* Orchestrator: create_post_from_scratch_orchestrator *)

\* variant that starts a finished run over
EnteredRestarting(r) ==
    IF r.status # RUNNING
    THEN [r EXCEPT !.status = RUNNING, !.step_attempt = 0,
                   !.current_step = IF r.status = COMPLETED THEN "start" ELSE @]
    ELSE r

\* top of the try block
Entered(r) ==
    IF r.status # RUNNING
    THEN [r EXCEPT !.status = RUNNING, !.step_attempt = 0]
    ELSE r

OrchEnter(w) ==
    /\ pc[w] \in {"loaded", "dispatch"}
    /\ run' = [run EXCEPT ![w] = Entered(@)]
    /\ inv' = [inv EXCEPT ![w].entry_step = run[w].current_step,
                          ![w].entry_attempt = run[w].step_attempt,
                          ![w].entry_status = run[w].status]
    /\ pc' = [pc EXCEPT ![w] = "orch"]
    /\ UNCHANGED <<disk, lock, state_files, artifact_files, existing, starts, saving, seen, input, result>>

\* variant of the except handler that rolls the invocation's progress back
FailedRollingBack(r, exc) ==
    [r EXCEPT !.status = FAILED_RETRYABLE,
              !.step_attempt = @ + 1,
              !.last_error_msg = exc,
              !.retry_at = GetNextRetryAt(r.step_attempt + 1),
              !.streak = @ + 1,
              !.current_step = "start",
              !.state_data = EmptyDict]

\* the except handler
\* variant with a retry budget: the second failure in a row is final
FailedGivingUp(r, exc) ==
    [r EXCEPT !.status = IF r.streak >= 1 THEN FAILED_PERMANENT ELSE FAILED_RETRYABLE,
              !.step_attempt = @ + 1,
              !.last_error_msg = exc,
              !.retry_at = IF r.streak >= 1 THEN NoTime ELSE GetNextRetryAt(r.step_attempt + 1),
              !.streak = @ + 1]

Failed(r, exc) ==
    [r EXCEPT !.status = FAILED_RETRYABLE,
              !.step_attempt = @ + 1,
              !.last_error_msg = exc,
              !.retry_at = GetNextRetryAt(r.step_attempt + 1),
              !.streak = @ + 1]

\* variant that always jumps to the terminal state
AdvancedToEnd(r, data, next) ==
    [r EXCEPT !.state_data = Merge(@, data),
              !.current_step = "final_image_created",
              !.step_attempt = 0,
              !.streak = 0]

\* a block completed: current_step moves on and step_attempt is reset
Advanced(r, data, next) ==
    [r EXCEPT !.state_data = Merge(@, data),
              !.current_step = next,
              !.step_attempt = 0,
              !.streak = 0]

\* variant in which the first block is not guarded
BlockRunsUnguarded(r, entry_state) == r.current_step = entry_state \/ entry_state = "start"

\* the guard of each block
BlockRuns(r, entry_state) == r.current_step = entry_state

\* history of the block just executed
Noted(i, entry_state, call) ==
    [i EXCEPT !.first = IF @ = "" THEN entry_state ELSE @,
              !.last = call,
              !.dossier_calls = IF call.step = "dossier" THEN @ + call.content ELSE @]

\* one block has run with result r2 (raised = the exception it ended with)
BlockDone(w, entry_state, r2, raised, call) ==
    /\ run' = [run EXCEPT ![w] = r2]
    /\ inv' = [inv EXCEPT ![w] =
                 [Noted(@, entry_state, call) EXCEPT
                     !.failed_at = IF raised # "" THEN entry_state ELSE "",
                     !.raised = raised,
                     !.pre_attempt = IF raised # "" THEN run[w].step_attempt ELSE 0,
                     !.pre_retry_at = IF raised # "" THEN run[w].retry_at ELSE NoTime]]
    /\ pc' = [pc EXCEPT ![w] = IF raised # "" THEN "returned" ELSE "orch"]

Call(step, cached, content, media) ==
    [step |-> step, cached |-> cached, content |-> content, media |-> media]

\* what each block puts into run.state_data from its step's result
DossierWrites(value) == [dossier_content |-> value.dossier]

\* run.state_data.update(copy_result)
CopyWrites(value) == value

ImageWrites ==
    [generated_image_path |-> _sanitize_filename("post_image.jpg", ""),
     generated_image_filename |-> "post_image.jpg"]

\* Etapa 1
StepDossier(w) ==
    /\ pc[w] = "orch"
    /\ BlockRuns(run[w], "start")
    /\ \E resp \in DossierResponses, store \in SaveOutcomes :
        LET valid == DossierCacheValid(Load(state_files, "create_dossier"))
            out == create_dossier_use_case(state_files, "create_dossier", resp, store)
            r2 == IF out.raised # "" THEN Failed(run[w], out.raised)
                  ELSE Advanced(run[w], DossierWrites(out.value), "dossier_created")
        IN  /\ state_files' = out.files
            /\ BlockDone(w, "start", r2, out.raised,
                         Call("dossier", valid, out.content, out.media))
    /\ UNCHANGED <<disk, lock, artifact_files, existing, starts, saving, seen, input, result>>

\* keyword arguments at the orchestrator's call of copywriter_use_case
CopywriterCallArgs == {"dossier", "context", "step_key", "content_generator", "state_repo"}

\* parameters of copywriter_use_case, none of which has a default
CopywriterParams ==
    {"theme", "dossier", "context", "step_key", "content_generator", "state_repo"}

\* Etapa 2
StepCopy(w) ==
    /\ pc[w] = "orch"
    /\ BlockRuns(run[w], "dossier_created")
    /\ \E resp \in CopyResponses, store \in SaveOutcomes :
        LET valid == CopyCacheValid(Load(state_files, "generate_copy"))
            dossier_content == Get(run[w].state_data, "dossier_content")
            out == IF dossier_content = ""
                   THEN Outcome("ValueError", EmptyDict, state_files, valid, 0, 0)
                   ELSE IF ~Binds(CopywriterParams, CopywriterCallArgs)
                   THEN Outcome("TypeError", EmptyDict, state_files, valid, 0, 0)
                   ELSE copywriter_use_case(state_files, "generate_copy", resp, store)
            r2 == IF out.raised # "" THEN Failed(run[w], out.raised)
                  ELSE Advanced(run[w], CopyWrites(out.value), "copy_created")
        IN  /\ state_files' = out.files
            /\ BlockDone(w, "dossier_created", r2, out.raised,
                         Call("copy", valid, out.content, out.media))
    /\ UNCHANGED <<disk, lock, artifact_files, existing, starts, saving, seen, input, result>>

\* Etapa 3
StepImage(w) ==
    /\ pc[w] = "orch"
    /\ BlockRuns(run[w], "copy_created")
    /\ \E resp \in ComponentResponses, mediaResp \in MediaResponses,
          store \in ImageStoreOutcomes :
        LET valid == ImageCacheValid(Load(state_files, "create_image"))
            sd == run[w].state_data
            present == /\ Get(sd, "dossier_content") # ""
                       /\ Get(sd, "title") # ""
                       /\ Get(sd, "description") # ""
            used == IF ~present
                    THEN Outcome("ValueError", EmptyDict, state_files, valid, 0, 0)
                    ELSE create_image_use_case(state_files, "create_image", resp, mediaResp, store)
            image_filename == "post_image.jpg"
            \* state_repo.save_artifact(context, image_filename, image_bytes)
            out == IF used.raised = "" /\ store = "save_artifact_fails"
                   THEN [used EXCEPT !.raised = StorageError]
                   ELSE used
            r2 == IF out.raised # "" THEN Failed(run[w], out.raised)
                  ELSE Advanced(run[w], ImageWrites, "image_created")
        IN  /\ state_files' = out.files
            /\ artifact_files' = IF out.raised # "" THEN artifact_files
                                 ELSE SaveArtifact(artifact_files, image_filename)
            /\ BlockDone(w, "copy_created", r2, out.raised,
                         Call("create_image", valid, out.content, out.media))
    /\ UNCHANGED <<disk, lock, existing, starts, saving, seen, input, result>>

\* Etapa 4
StepEdit(w) ==
    /\ pc[w] = "orch"
    /\ BlockRuns(run[w], "image_created")
    /\ \E render \in RenderOutcomes, store \in EditStoreOutcomes :
        LET sd == run[w].state_data
            image_base_filename == Get(sd, "generated_image_filename")
            final_filename == "final_post.jpg"
            out == IF image_base_filename = "" \/ Get(sd, "title") = ""
                   THEN [raised |-> "ValueError", arts |-> artifact_files]
                   ELSE IF ~ArtifactExists(artifact_files, image_base_filename)
                   THEN [raised |-> "ArtifactNotFoundError", arts |-> artifact_files]
                   ELSE IF store = "load_artifact_fails"
                   THEN [raised |-> StorageError, arts |-> artifact_files]
                   ELSE edit_image_use_case(artifact_files, render, store)
            r2 == IF out.raised # "" THEN Failed(run[w], out.raised)
                  ELSE Advanced(run[w],
                                [final_image_path |-> _sanitize_filename(final_filename, ""),
                                 final_image_filename |-> final_filename],
                                "final_image_created")
        IN  /\ artifact_files' = IF out.raised # "" THEN out.arts
                                 ELSE SaveArtifact(out.arts, final_filename)
            /\ BlockDone(w, "image_created", r2, out.raised,
                         Call("edit_image", FALSE, 0, 0))
    /\ UNCHANGED <<disk, lock, state_files, existing, starts, saving, seen, input, result>>

\* Conclusão do workflow, and return
\* variant that returns a finished run without marking it
ConcludeStillRunning(w) ==
    /\ pc[w] = "orch"
    /\ BlockRuns(run[w], "final_image_created")
    /\ pc' = [pc EXCEPT ![w] = "returned"]
    /\ UNCHANGED <<run, disk, lock, state_files, artifact_files, existing, inv, starts, saving, seen, input, result>>

Conclude(w) ==
    /\ pc[w] = "orch"
    /\ BlockRuns(run[w], "final_image_created")
    /\ run' = [run EXCEPT ![w].status = COMPLETED]
    /\ pc' = [pc EXCEPT ![w] = "returned"]
    /\ UNCHANGED <<disk, lock, state_files, artifact_files, existing, inv, starts, saving, seen, input, result>>

----------------------------------------------------------------------------
(* FileWorkflowRepository.update *)

\* variant without mutual exclusion
LockIgnored(w) == TRUE

LockAvailable(w) == lock = NoWorker

\* `with lock:` entered
UpdateAcquire(w) ==
    /\ pc[w] = "returned"
    /\ LockAvailable(w)
    /\ lock' = w
    /\ pc' = [pc EXCEPT ![w] = "locked"]
    /\ UNCHANGED <<disk, state_files, artifact_files, run, existing, inv, starts, saving, seen, input, result>>

\* variant that lets filelock.Timeout escape
TimeoutEscapes == "timeout"

\* `except Timeout: raise ConcurrencyError(msg)`
TimeoutSurfacesAs == "conflict"

\* the lock stayed held by another process for the whole timeout:
\* filelock.Timeout, re-raised as ConcurrencyError
UpdateTimeout(w) ==
    /\ pc[w] = "returned"
    /\ lock \notin {NoWorker, w}
    /\ pc' = [pc EXCEPT ![w] = TimeoutSurfacesAs]
    /\ UNCHANGED <<disk, lock, state_files, artifact_files, run, existing, inv, starts, saving, seen, input, result>>

\* variant in which leaving the `with lock:` block does not release
LockKept(holder) == holder

\* leaving the `with lock:` block, normally or by an exception
LockReleased(holder) == NoWorker

\* get_by_id inside update: the snapshot, or None when workflow_state.json is
\* missing or cannot be read or parsed
ReadOutcomes == {"run", "none"}

\* existing_run = get_by_id(...)
UpdateReload(w) ==
    /\ pc[w] = "locked"
    /\ \E read \in ReadOutcomes :
          existing' = [existing EXCEPT ![w] =
                         IF read = "run" THEN disk.run.version ELSE NoVersion]
    /\ pc' = [pc EXCEPT ![w] = "reloaded"]
    /\ UNCHANGED <<disk, lock, state_files, artifact_files, run, inv, starts, saving, seen, input, result>>

\* variant without the version comparison
VersionUnchecked(w) == TRUE

VersionMatches(w) == existing[w] = run[w].version

\* `if not existing_run`: FileNotFoundError, lock released
UpdateNotFound(w) ==
    /\ pc[w] = "reloaded"
    /\ existing[w] = NoVersion
    /\ lock' = LockReleased(w)
    /\ pc' = [pc EXCEPT ![w] = "notfound"]
    /\ UNCHANGED <<disk, state_files, artifact_files, run, existing, inv, starts, saving, seen, input, result>>

\* existing_run.version != run.version: ConcurrencyError, lock released
UpdateConflict(w) ==
    /\ pc[w] = "reloaded"
    /\ existing[w] # NoVersion
    /\ ~VersionMatches(w)
    /\ lock' = LockReleased(w)
    /\ pc' = [pc EXCEPT ![w] = "conflict"]
    /\ UNCHANGED <<disk, state_files, artifact_files, run, existing, inv, starts, saving, seen, input, result>>

\* variant that forgets the increment
NotBumped(r) == r

Bumped(r) == [r EXCEPT !.version = @ + 1]

\* version += 1, atomic write, lock released
UpdateCommit(w) ==
    /\ pc[w] = "reloaded"
    /\ existing[w] # NoVersion
    /\ VersionMatches(w)
    /\ run' = [run EXCEPT ![w] = Bumped(@)]
    /\ disk' = [present |-> TRUE, run |-> Bumped(run[w])]
    /\ lock' = LockReleased(w)
    /\ pc' = [pc EXCEPT ![w] = "updated"]
    /\ UNCHANGED <<state_files, artifact_files, existing, inv, starts, saving, seen, input, result>>

\* version += 1, then _atomic_write raises (temporary file, dump or replace):
\* the snapshot is untouched, the temporary file is removed, lock released
UpdateWriteFails(w) ==
    /\ pc[w] = "reloaded"
    /\ existing[w] # NoVersion
    /\ VersionMatches(w)
    /\ run' = [run EXCEPT ![w] = Bumped(@)]
    /\ lock' = LockReleased(w)
    /\ pc' = [pc EXCEPT ![w] = "writefail"]
    /\ UNCHANGED <<disk, state_files, artifact_files, existing, inv, starts, saving, seen, input, result>>

\* the ways update() ends: returned, ConcurrencyError, FileNotFoundError, OSError
UpdateExits == {"updated", "conflict", "notfound", "writefail"}

\* main() ends: the process exits
Exit(w) ==
    /\ pc[w] \in UpdateExits
    /\ pc' = [pc EXCEPT ![w] = "idle"]
    /\ run' = [run EXCEPT ![w] = NewRun]
    /\ existing' = [existing EXCEPT ![w] = NoVersion]
    /\ inv' = [inv EXCEPT ![w] = NoInv]
    /\ UNCHANGED <<disk, lock, state_files, artifact_files, starts, saving, seen, input, result>>

----------------------------------------------------------------------------

Next ==
    \E w \in Workers :
        \/ CreateRun(w)
        \/ GetById(w)
        \/ \E name \in StepNames : Rewind(w, name)
        \/ RewindInvalid(w)
        \/ OrchEnter(w)
        \/ StepDossier(w)
        \/ StepCopy(w)
        \/ StepImage(w)
        \/ StepEdit(w)
        \/ Conclude(w)
        \/ UpdateAcquire(w)
        \/ UpdateTimeout(w)
        \/ UpdateReload(w)
        \/ UpdateNotFound(w)
        \/ UpdateConflict(w)
        \/ UpdateCommit(w)
        \/ UpdateWriteFails(w)
        \/ Exit(w)

Spec == Init /\ [][Next]_vars

----------------------------------------------------------------------------
(* FileStateRepository.save and load as they interleave: save() opens the  *)
(* file with mode "w", which truncates it, and writes the new document in  *)
(* a second step; load() may run, or the writing process may stop, between *)
(* the two.                                                                *)
(***************************************************************************)

\* step keys used, and the complete documents a key may hold
StoreKeys == {"create_dossier", "generate_copy"}

StoreValues == {[dossie |-> "D"], [dossie |-> "D2"]}

\* every key already holds a complete value
StoreInit ==
    /\ disk = NoDisk
    /\ lock = NoWorker
    /\ pc = [w \in Workers |-> "idle"]
    /\ run = [w \in Workers |-> NewRun]
    /\ existing = [w \in Workers |-> NoVersion]
    /\ inv = [w \in Workers |-> NoInv]
    /\ artifact_files = {}
    /\ starts = 0
    /\ saving = [w \in Workers |-> NoSave]
    /\ seen = [w \in Workers |-> NoSeen]
    /\ input = NoInput
    /\ result = NoResult
    /\ \E v1, v2 \in StoreValues :
          state_files = Save(Save(EmptyDict, "create_dossier", v1), "generate_copy", v2)

\* aiofiles.open(file_path, "w"): the file now exists and is empty
SaveOpen(w, key, data) ==
    /\ pc[w] = "idle"
    /\ state_files' = Save(state_files, key, Partial)
    /\ saving' = [saving EXCEPT ![w] = [key |-> key, data |-> data]]
    /\ pc' = [pc EXCEPT ![w] = "writing"]
    /\ UNCHANGED <<disk, lock, artifact_files, run, existing, inv, starts, seen, input, result>>

\* f.write(json.dumps(data)) and close
SaveWrite(w) ==
    /\ pc[w] = "writing"
    /\ state_files' = Save(state_files, saving[w].key, saving[w].data)
    /\ saving' = [saving EXCEPT ![w] = NoSave]
    /\ pc' = [pc EXCEPT ![w] = "idle"]
    /\ UNCHANGED <<disk, lock, artifact_files, run, existing, inv, starts, seen, input, result>>

\* the write raises IOError, or the process stops before it: the file stays
\* as open() left it
SaveInterrupted(w) ==
    /\ pc[w] = "writing"
    /\ saving' = [saving EXCEPT ![w] = NoSave]
    /\ pc' = [pc EXCEPT ![w] = "idle"]
    /\ UNCHANGED <<disk, lock, state_files, artifact_files, run, existing, inv, starts, seen, input, result>>

\* load(context, key)
LoadState(w, key) ==
    /\ pc[w] = "idle"
    /\ LET loaded == Load(state_files, key)
       IN  seen' = [seen EXCEPT ![w] =
                      [key |-> key, found |-> loaded.found, data |-> loaded.data]]
    /\ UNCHANGED <<disk, lock, state_files, artifact_files, pc, run, existing, inv, starts,
                   saving, input, result>>

StoreNext ==
    \E w \in Workers :
        \/ \E key \in StoreKeys, data \in StoreValues : SaveOpen(w, key, data)
        \/ SaveWrite(w)
        \/ SaveInterrupted(w)
        \/ \E key \in StoreKeys : LoadState(w, key)

StoreSpec == StoreInit /\ [][StoreNext]_vars

----------------------------------------------------------------------------
(* FileWorkflowRepository.create, update and get_by_id step by step.       *)
(* _atomic_write makes a temporary file in the run directory (mkstemp),    *)
(* dumps the snapshot into it and renames it over workflow_state.json      *)
(* (os.replace); the process may stop between any two of these steps.      *)
(* The exits of update() that write nothing (lock timeout, missing         *)
(* snapshot, version conflict) are those of Spec and are left out here.    *)
(***************************************************************************)

\* create and update calls started
MaxWrites == 3

SnapshotName == "workflow_state.json"

\* what the caller of update() changed in the run it loaded
CallerStatuses == {RUNNING, COMPLETED, FAILED_RETRYABLE}

RepoInit ==
    /\ lock = NoWorker
    /\ pc = [w \in Workers |-> "idle"]
    /\ run = [w \in Workers |-> NewRun]
    /\ existing = [w \in Workers |-> NoVersion]
    /\ inv = [w \in Workers |-> NoInv]
    /\ state_files = EmptyDict
    /\ artifact_files = {}
    /\ starts = 0
    /\ saving = [w \in Workers |-> NoSave]
    /\ seen = [w \in Workers |-> NoSeen]
    /\ input = NoInput
    /\ result = NoResult
    /\ \/ disk = NoDisk
       \/ disk = [present |-> TRUE, run |-> ResumableRun]

\* get_by_id(): None when workflow_state.json does not exist or json.load
\* rejects it, else the snapshot
get_by_id(d) ==
    IF d.present /\ d.run # Partial
    THEN [key |-> SnapshotName, found |-> TRUE, data |-> d.run]
    ELSE [key |-> SnapshotName, found |-> FALSE, data |-> EmptyDict]

\* create(run) up to mkstemp: the run directory exists, version and
\* timestamps are set, the temporary file is empty.  inv.base remembers the
\* version that was persisted when the call began (0: none)
CreateBegin(w) ==
    /\ pc[w] = "idle"
    /\ starts < MaxWrites
    /\ starts' = starts + 1
    /\ run' = [run EXCEPT ![w] = Created(NewRun)]
    /\ saving' = [saving EXCEPT ![w] = [key |-> "create", data |-> Partial]]
    /\ inv' = [inv EXCEPT ![w] =
                 [NoInv EXCEPT !.base = IF disk.present THEN disk.run.version ELSE 0]]
    /\ pc' = [pc EXCEPT ![w] = "tmp_made"]
    /\ UNCHANGED <<disk, lock, state_files, artifact_files, existing, seen, input, result>>

\* update(run) up to mkstemp, for a run the caller loaded at the persisted
\* version: lock taken, snapshot re-read, versions equal, version += 1
UpdateBegin(w, status) ==
    /\ pc[w] = "idle"
    /\ starts < MaxWrites
    /\ starts' = starts + 1
    /\ LockAvailable(w)
    /\ get_by_id(disk).found
    /\ lock' = w
    /\ existing' = [existing EXCEPT ![w] = disk.run.version]
    /\ run' = [run EXCEPT ![w] = Bumped([disk.run EXCEPT !.status = status])]
    /\ saving' = [saving EXCEPT ![w] = [key |-> "update", data |-> Partial]]
    /\ inv' = [inv EXCEPT ![w] = [NoInv EXCEPT !.base = disk.run.version]]
    /\ pc' = [pc EXCEPT ![w] = "tmp_made"]
    /\ UNCHANGED <<disk, state_files, artifact_files, seen, input, result>>

\* json.dump(data_to_save, f) and the close of the temporary file
WriteDump(w) ==
    /\ pc[w] = "tmp_made"
    /\ saving' = [saving EXCEPT ![w].data = run[w]]
    /\ pc' = [pc EXCEPT ![w] = "dumped"]
    /\ UNCHANGED <<disk, lock, state_files, artifact_files, run, existing, inv, starts,
                   seen, input, result>>

\* variant that renames the temporary file before it is written
ReplaceEarly(p) == p \in {"tmp_made", "dumped"}

\* os.replace comes after the `with os.fdopen(...)` block
ReplaceReady(p) == p = "dumped"

\* os.replace(tmp_path, run_path), then the call returns (update releases
\* the lock)
WriteReplace(w) ==
    /\ ReplaceReady(pc[w])
    /\ disk' = [present |-> TRUE, run |-> saving[w].data]
    /\ lock' = IF lock = w THEN LockReleased(w) ELSE lock
    /\ saving' = [saving EXCEPT ![w] = NoSave]
    /\ existing' = [existing EXCEPT ![w] = NoVersion]
    /\ pc' = [pc EXCEPT ![w] = "idle"]
    /\ UNCHANGED <<state_files, artifact_files, run, inv, starts, seen, input, result>>

\* the process stops, or the write raises, before os.replace: the snapshot is
\* as it was; the temporary file is unlinked by `finally` or left behind
\* under its own name; the lock is released; what the process held in memory
\* is gone
WriteStops(w) ==
    /\ pc[w] \in {"tmp_made", "dumped"}
    /\ lock' = IF lock = w THEN LockReleased(w) ELSE lock
    /\ saving' = [saving EXCEPT ![w] = NoSave]
    /\ existing' = [existing EXCEPT ![w] = NoVersion]
    /\ run' = [run EXCEPT ![w] = NewRun]
    /\ seen' = [seen EXCEPT ![w] = NoSeen]
    /\ inv' = [inv EXCEPT ![w].raised = "stopped"]
    /\ pc' = [pc EXCEPT ![w] = "idle"]
    /\ UNCHANGED <<disk, state_files, artifact_files, starts, input, result>>

\* get_by_id by a process that is not writing
ReadSnapshot(w) ==
    /\ pc[w] = "idle"
    /\ seen' = [seen EXCEPT ![w] = get_by_id(disk)]
    /\ UNCHANGED <<disk, lock, state_files, artifact_files, pc, run, existing, inv, starts,
                   saving, input, result>>

RepoNext ==
    \E w \in Workers :
        \/ CreateBegin(w)
        \/ \E status \in CallerStatuses : UpdateBegin(w, status)
        \/ WriteDump(w)
        \/ WriteReplace(w)
        \/ WriteStops(w)
        \/ ReadSnapshot(w)

RepoSpec == RepoInit /\ [][RepoNext]_vars

----------------------------------------------------------------------------
(* FileWorkflowRepository.list_ready_for_execution as a function of the    *)
(* workflow directory: the run directories in the order iterdir() yields   *)
(* them (any order), the limit and the clock.                              *)
(***************************************************************************)

\* run directories under the workflow directory
MaxDirs == 3

\* largest limit passed
MaxLimit == 2

\* datetime.now(timezone.utc) at the call
ListNow == 5

CreatedAts == 1..3

\* what matters of a run directory: whether get_by_id returns a run, and the
\* run's status, retry_at (NoTime: None) and created_at
ListedRuns ==
    [readable : {TRUE},
     status : {PENDING, RUNNING, FAILED_RETRYABLE},
     retry_at : {NoTime, ListNow - 1, ListNow + 1},
     created_at : CreatedAts]
    \cup [readable : {FALSE}, status : {PENDING}, retry_at : {NoTime}, created_at : {1}]

\* is_pending or is_retryable
IsReady(r, now) ==
    \/ r.status = PENDING
    \/ r.status = FAILED_RETRYABLE /\ r.retry_at # NoTime /\ r.retry_at <= now

\* the for loop: a directory whose snapshot cannot be read is skipped by
\* `continue`; after any other directory the loop breaks once
\* len(ready_runs) >= limit
RECURSIVE ScanRunDirs(_, _, _, _, _)
ScanRunDirs(dirs, i, ready_runs, limit, now) ==
    IF i > Len(dirs)
    THEN ready_runs
    ELSE IF ~dirs[i].readable
    THEN ScanRunDirs(dirs, i + 1, ready_runs, limit, now)
    ELSE LET appended == IF IsReady(dirs[i], now)
                         THEN Append(ready_runs, dirs[i]) ELSE ready_runs
         IN  IF Len(appended) >= limit
             THEN appended
             ELSE ScanRunDirs(dirs, i + 1, appended, limit, now)

\* r placed after the last element that is not newer (list.sort is stable)
RECURSIVE InsertByCreatedAt(_, _)
InsertByCreatedAt(r, sorted) ==
    IF sorted = <<>> \/ sorted[Len(sorted)].created_at <= r.created_at
    THEN Append(sorted, r)
    ELSE Append(InsertByCreatedAt(r, SubSeq(sorted, 1, Len(sorted) - 1)),
                sorted[Len(sorted)])

\* ready_runs.sort(key=lambda r: r.created_at)
RECURSIVE SortByCreatedAt(_)
SortByCreatedAt(runs) ==
    IF runs = <<>> THEN <<>>
    ELSE InsertByCreatedAt(runs[Len(runs)], SortByCreatedAt(SubSeq(runs, 1, Len(runs) - 1)))

list_ready_for_execution(dirs, limit, now) ==
    SortByCreatedAt(ScanRunDirs(dirs, 1, <<>>, limit, now))

ListInit ==
    /\ disk = NoDisk
    /\ lock = NoWorker
    /\ pc = [w \in Workers |-> "idle"]
    /\ run = [w \in Workers |-> NewRun]
    /\ existing = [w \in Workers |-> NoVersion]
    /\ inv = [w \in Workers |-> NoInv]
    /\ state_files = EmptyDict
    /\ artifact_files = {}
    /\ starts = 0
    /\ saving = [w \in Workers |-> NoSave]
    /\ seen = [w \in Workers |-> NoSeen]
    /\ \E n \in 0..MaxDirs : \E dirs \in [1..n -> ListedRuns] : \E limit \in 0..MaxLimit :
          input = [op |-> "list_ready_for_execution", dirs |-> dirs,
                   limit |-> limit, now |-> ListNow]
    /\ result = NoResult

ListReady ==
    /\ input.op = "list_ready_for_execution"
    /\ result = NoResult
    /\ result' = [op |-> input.op,
                  runs |-> list_ready_for_execution(input.dirs, input.limit, input.now)]
    /\ UNCHANGED <<disk, lock, state_files, artifact_files, pc, run, existing, inv, starts,
                   saving, seen, input>>

ListNext == ListReady

ListSpec == ListInit /\ [][ListNext]_vars

----------------------------------------------------------------------------
(* Retry/backoff calculator: next_retry_at(attempt) for a fixed "now".     *)
(* Times are in hundredths of a second so that a jitter of up to 10% of    *)
(* the wait is a whole number.                                             *)
(***************************************************************************)

\* largest attempt number handed to the calculator
MaxAttempt == 5

\* the injected clock, in seconds
BackoffNows == {0, 7}

\* uniform random jitter of up to 10% of the computed wait, in hundredths
JitterChoices(wait) == 0..(10 * wait)

\* now + wait + jitter, in hundredths
next_retry_at(attempt, now, jitter) == 100 * now + 100 * GetNextRetryAt(attempt) + jitter

BackoffInit ==
    /\ disk = NoDisk
    /\ lock = NoWorker
    /\ pc = [w \in Workers |-> "idle"]
    /\ run = [w \in Workers |-> NewRun]
    /\ existing = [w \in Workers |-> NoVersion]
    /\ inv = [w \in Workers |-> NoInv]
    /\ state_files = EmptyDict
    /\ artifact_files = {}
    /\ starts = 0
    /\ saving = [w \in Workers |-> NoSave]
    /\ seen = [w \in Workers |-> NoSeen]
    /\ \E attempt \in 0..MaxAttempt, now \in BackoffNows :
          input = [op |-> "next_retry_at", attempt |-> attempt, now |-> now]
    /\ result = NoResult

ComputeRetryAt ==
    /\ input.op = "next_retry_at"
    /\ result = NoResult
    /\ \E jitter \in JitterChoices(GetNextRetryAt(input.attempt)) :
          result' = [op |-> input.op,
                     retry_at |-> next_retry_at(input.attempt, input.now, jitter)]
    /\ UNCHANGED <<disk, lock, state_files, artifact_files, pc, run, existing, inv, starts,
                   saving, seen, input>>

BackoffNext == ComputeRetryAt

BackoffSpec == BackoffInit /\ [][BackoffNext]_vars

----------------------------------------------------------------------------
(* FileStateRepository.delete on one run directory, between saves of state *)
(* entries and artifacts.  result remembers the last delete until the next *)
(* save.                                                                   *)
(***************************************************************************)

\* delete calls made
MaxDeletes == 3

\* names handed to save, save_artifact and delete: a step key and an
\* artifact name
DeleteKeys == {"create_dossier", "final_post.jpg"}

\* the files of the directory that belong to a name
Existing(files, arts, key) == {p \in DeletePaths(key) : p \in DOMAIN files \/ p \in arts}

DeleteInit ==
    /\ disk = NoDisk
    /\ lock = NoWorker
    /\ pc = [w \in Workers |-> "idle"]
    /\ run = [w \in Workers |-> NewRun]
    /\ existing = [w \in Workers |-> NoVersion]
    /\ inv = [w \in Workers |-> NoInv]
    /\ starts = 0
    /\ saving = [w \in Workers |-> NoSave]
    /\ seen = [w \in Workers |-> NoSeen]
    /\ input = NoInput
    /\ result = NoResult
    /\ state_files \in {EmptyDict, Save(EmptyDict, "create_dossier", [dossie |-> "D"])}
    /\ artifact_files \in SUBSET {_sanitize_filename("final_post.jpg", "")}

\* save(context, key, data) of a step's result
StoreSave(data) ==
    /\ state_files' = Save(state_files, "create_dossier", data)
    /\ result' = NoResult
    /\ UNCHANGED <<disk, lock, artifact_files, pc, run, existing, inv, starts, saving, seen,
                   input>>

\* save_artifact(context, filename, data)
StoreSaveArtifact(name) ==
    /\ artifact_files' = SaveArtifact(artifact_files, name)
    /\ result' = NoResult
    /\ UNCHANGED <<disk, lock, state_files, pc, run, existing, inv, starts, saving, seen,
                   input>>

\* delete(context, key).  before, left: the files of that name before and
\* after; second: the call follows a delete of the same key that left nothing
DeleteKey(key, failing) ==
    /\ starts < MaxDeletes
    /\ starts' = starts + 1
    /\ LET d == delete(state_files, artifact_files, key, failing)
       IN  /\ state_files' = d.files
           /\ artifact_files' = d.arts
           /\ input' = [op |-> "delete", key |-> key, failing |-> failing]
           /\ result' = [op |-> "delete", key |-> key, returned |-> d.returned,
                         before |-> Existing(state_files, artifact_files, key),
                         left |-> Existing(d.files, d.arts, key),
                         repeated |-> (result.op = "delete" /\ result.key = key),
                         second |-> (result.op = "delete" /\ result.key = key
                                        /\ result.left = {}),
                         first_returned |-> (result.op = "delete" /\ result.key = key
                                                /\ result.returned)]
    /\ UNCHANGED <<disk, lock, pc, run, existing, inv, saving, seen>>

DeleteNext ==
    \/ \E data \in StoreValues : StoreSave(data)
    \/ \E name \in DeleteKeys : StoreSaveArtifact(name)
    \/ \E key \in DeleteKeys : \E failing \in SUBSET DeletePaths(key) : DeleteKey(key, failing)

DeleteSpec == DeleteInit /\ [][DeleteNext]_vars

----------------------------------------------------------------------------
(* One caching step invoked twice on the same run directory: the first     *)
(* invocation starts from an empty state store, the second finds what the  *)
(* first left.  The use cases are called with the arguments their          *)
(* signatures require.                                                     *)
(***************************************************************************)

CachingSteps == {"dossier", "copy", "create_image"}

\* answers of the collaborators to one invocation of a step
StepResponses(step) ==
    CASE step = "dossier" -> [content : DossierResponses, media : {"image"}]
      [] step = "copy" -> [content : CopyResponses, media : {"image"}]
      [] OTHER -> [content : ComponentResponses, media : MediaResponses]

\* the step's use case, and what the orchestrator's block would write into
\* state_data from its result
InvokeStep(step, files, resp, store) ==
    LET out == CASE step = "dossier" ->
                        create_dossier_use_case(files, "create_dossier", resp.content, store)
                 [] step = "copy" ->
                        copywriter_use_case(files, "generate_copy", resp.content, store)
                 [] OTHER ->
                        create_image_use_case(files, "create_image", resp.content,
                                              resp.media, store)
    IN  [raised |-> out.raised,
         cached |-> out.cached,
         files |-> out.files,
         written |-> IF out.raised # "" THEN EmptyDict
                     ELSE CASE step = "dossier" -> DossierWrites(out.value)
                            [] step = "copy" -> CopyWrites(out.value)
                            [] OTHER -> ImageWrites]

CacheInit ==
    /\ disk = NoDisk
    /\ lock = NoWorker
    /\ pc = [w \in Workers |-> "idle"]
    /\ run = [w \in Workers |-> NewRun]
    /\ existing = [w \in Workers |-> NoVersion]
    /\ inv = [w \in Workers |-> NoInv]
    /\ state_files = EmptyDict
    /\ artifact_files = {}
    /\ starts = 0
    /\ saving = [w \in Workers |-> NoSave]
    /\ seen = [w \in Workers |-> NoSeen]
    /\ \E step \in CachingSteps : \E first, second \in StepResponses(step) :
          input = [op |-> "invoke_twice", step |-> step, first |-> first, second |-> second]
    /\ result = NoResult

FirstInvocation ==
    /\ input.op = "invoke_twice"
    /\ result = NoResult
    /\ \E store \in SaveOutcomes :
          LET out == InvokeStep(input.step, state_files, input.first, store)
          IN  /\ state_files' = out.files
              /\ result' = [op |-> input.op, invocations |-> 1,
                            first_raised |-> out.raised, first_written |-> out.written,
                            raised |-> out.raised, written |-> out.written,
                            cached |-> out.cached]
    /\ UNCHANGED <<disk, lock, artifact_files, pc, run, existing, inv, starts, saving, seen,
                   input>>

SecondInvocation ==
    /\ result.op = "invoke_twice"
    /\ result.invocations = 1
    /\ \E store \in SaveOutcomes :
          LET out == InvokeStep(input.step, state_files, input.second, store)
          IN  /\ state_files' = out.files
              /\ result' = [result EXCEPT !.invocations = 2,
                                          !.raised = out.raised,
                                          !.written = out.written,
                                          !.cached = out.cached]
    /\ UNCHANGED <<disk, lock, artifact_files, pc, run, existing, inv, starts, saving, seen,
                   input>>

CacheNext == FirstInvocation \/ SecondInvocation

CacheSpec == CacheInit /\ [][CacheNext]_vars

----------------------------------------------------------------------------
(* approve_post_use_case against its three ports: what find_by_id returns, *)
(* which port call (if any) raises, and the calls the use case makes.      *)
(***************************************************************************)

DRAFT == "RASCUNHO"
PENDING_APPROVAL == "PENDENTE_APROVACAO"
APPROVED == "APROVADO"
REJECTED == "REJEITADO"
PUBLISHED == "PUBLICADO"
PUBLICATION_ERROR == "ERRO_PUBLICACAO"

PostStatuses == {DRAFT, PENDING_APPROVAL, APPROVED, REJECTED, PUBLISHED, PUBLICATION_ERROR}

\* find_by_id returned None
NoPost == [status |-> "", scheduled_at |-> NoTime]

\* what find_by_id may return: None, or a post in any status, scheduled or not
FoundPosts == {NoPost} \cup [status : PostStatuses, scheduled_at : {NoTime, 3}]

\* the scheduled_at argument
ScheduleTimes == {10, 20}

\* the port call that raises, if any
ApproveFaults == {"none", "save_raises", "audit_raises", "log_raises"}

\* variant without the status check
AnyStatusApprovable(post) == TRUE

\* `if post.status != PostStatus.PENDING_APPROVAL: raise`
Approvable(post) == post.status = PENDING_APPROVAL

\* raised: exception type name, "" when the post is returned; saves, audits:
\* calls made to post_repository.save and audit_repository.save
approve_post_use_case(post, scheduled_at, fault) ==
    IF post = NoPost
    THEN [raised |-> "InvalidPostStateError", post |-> post, saves |-> 0, audits |-> 0]
    ELSE IF ~Approvable(post)
    THEN [raised |-> "InvalidPostStateError", post |-> post, saves |-> 0, audits |-> 0]
    ELSE LET approved == [post EXCEPT !.status = APPROVED, !.scheduled_at = scheduled_at]
         IN  IF fault = "save_raises"
             THEN [raised |-> "RepositoryError", post |-> approved, saves |-> 1, audits |-> 0]
             ELSE IF fault = "audit_raises"
             THEN [raised |-> "RepositoryError", post |-> approved, saves |-> 1, audits |-> 1]
             ELSE IF fault = "log_raises"
             THEN [raised |-> "ObservabilityError", post |-> approved, saves |-> 1, audits |-> 1]
             ELSE [raised |-> "", post |-> approved, saves |-> 1, audits |-> 1]

ApproveInit ==
    /\ disk = NoDisk
    /\ lock = NoWorker
    /\ pc = [w \in Workers |-> "idle"]
    /\ run = [w \in Workers |-> NewRun]
    /\ existing = [w \in Workers |-> NoVersion]
    /\ inv = [w \in Workers |-> NoInv]
    /\ state_files = EmptyDict
    /\ artifact_files = {}
    /\ starts = 0
    /\ saving = [w \in Workers |-> NoSave]
    /\ seen = [w \in Workers |-> NoSeen]
    /\ \E post \in FoundPosts, scheduled_at \in ScheduleTimes, fault \in ApproveFaults :
          input = [op |-> "approve_post", post |-> post, scheduled_at |-> scheduled_at,
                   fault |-> fault]
    /\ result = NoResult

ApprovePost ==
    /\ input.op = "approve_post"
    /\ result = NoResult
    /\ LET out == approve_post_use_case(input.post, input.scheduled_at, input.fault)
       IN  result' = [op |-> input.op, raised |-> out.raised, post |-> out.post,
                      saves |-> out.saves, audits |-> out.audits]
    /\ UNCHANGED <<disk, lock, state_files, artifact_files, pc, run, existing, inv, starts,
                   saving, seen, input>>

ApproveNext == ApprovePost

ApproveSpec == ApproveInit /\ [][ApproveNext]_vars

----------------------------------------------------------------------------
(* Properties *)

Returned(w) == pc[w] = "returned"

FailedNow(w) == Returned(w) /\ inv[w].failed_at # ""

UpdateDone(w) == pc[w] \in {"updated", "conflict"}

\* C1: when a step body raises, the returned run is FAILED_RETRYABLE, its
\* step_attempt is one more than the run had before the failure, last_error_msg
\* is non-empty, retry_at is set and current_step is the entry state of the
\* block that raised.
C1_FailureRoundTrip ==
    \A w \in Workers :
        FailedNow(w) =>
            /\ run[w].status = FAILED_RETRYABLE
            /\ run[w].step_attempt = inv[w].entry_attempt + 1
            /\ run[w].last_error_msg # ""
            /\ run[w].retry_at # NoTime
            /\ run[w].current_step = inv[w].failed_at

\* C2: an update whose run.version differs from the version of the snapshot it
\* read back ends in ConcurrencyError and leaves the persisted snapshot as it
\* was.
C2_StaleUpdateRejected ==
    [][\A w \in Workers :
          (/\ pc[w] = "reloaded"
           /\ existing[w] = disk.run.version
           /\ disk.run.version # run[w].version
           /\ pc'[w] # pc[w])
              => (pc'[w] = "conflict" /\ disk' = disk)]_vars

C2_Witness ==
    \E w \in Workers :
        /\ pc[w] = "conflict"
        /\ existing[w] # NoVersion
        /\ existing[w] # run[w].version
        /\ disk.run.version = existing[w]

C4_OneWinner ==
    \A w1, w2 \in Workers :
        (w1 # w2 /\ UpdateDone(w1) /\ UpdateDone(w2) /\ inv[w1].base = inv[w2].base)
            => /\ (pc[w1] = "updated") # (pc[w2] = "updated")
               /\ \A w \in {w1, w2} :
                    pc[w] = "updated" =>
                        disk.run = run[w] /\ disk.run.version = inv[w].base + 1

C4_Witness ==
    \E w1, w2 \in Workers :
        /\ w1 # w2
        /\ inv[w1].base = inv[w2].base
        /\ pc[w1] = "updated"
        /\ pc[w2] = "conflict"
        /\ existing[w2] # NoVersion

\* C5: no two workers are inside the orchestrator for the run at the same time.
C5_NoConcurrentProcessing ==
    \A w1, w2 \in Workers : (pc[w1] = "orch" /\ pc[w2] = "orch") => w1 = w2

\* failures that come from a collaborator, a malformed response, the renderer
\* or the state store
EnvironmentFaults ==
    {"GeminiAPIError", "ImageGenerationError", "ValueError", "IOError",
     "RuntimeError", "ArtifactNotFoundError", StorageError}

\* C6: an invocation entered at start in which no collaborator or store call
\* fails returns the run COMPLETED at final_image_created.
C6_FullPass ==
    \A w \in Workers :
        (/\ Returned(w)
         /\ inv[w].entry_step = "start"
         /\ ~(FailedNow(w) /\ run[w].last_error_msg \in EnvironmentFaults))
            => (run[w].status = COMPLETED /\ run[w].current_step = "final_image_created")

\* C7: without a rewind current_step moves one state forward at a time: each
\* block of an invocation leaves it or moves it to the next state, and an
\* update by a worker that did not rewind never moves the persisted step back.
C7_ForwardOneAtATime ==
    [][/\ \A w \in Workers :
            pc[w] = "orch" =>
                StateIndex(run'[w].current_step) - StateIndex(run[w].current_step) \in {0, 1}
       /\ \A w \in Workers :
            (pc[w] = "reloaded" /\ pc'[w] = "updated" /\ ~inv[w].rewound) =>
                StateIndex(disk'.run.current_step) >= StateIndex(disk.run.current_step)]_vars

C7_Witness ==
    \E w \in Workers :
        /\ Returned(w)
        /\ ~inv[w].rewound
        /\ inv[w].entry_step = "copy_created"
        /\ run[w].current_step = "final_image_created"

\* C8: the first block an invocation executes is the one whose entry state is
\* the run's current_step at entry; entered past start, it makes no call to
\* the content generator for the dossier.
C8_ResumesAtCurrentStep ==
    \A w \in Workers :
        /\ inv[w].first # "" => inv[w].first = inv[w].entry_step
        /\ (inv[w].entry_step \notin {"", "start"}) => inv[w].dossier_calls = 0

C8_Witness ==
    \E w \in Workers :
        /\ Returned(w)
        /\ inv[w].entry_step = "dossier_created"
        /\ inv[w].first = "dossier_created"
        /\ inv[w].last.step = "copy"
        /\ inv[w].dossier_calls = 0

\* C9 as stated: a step that finds a valid entry under its step_key calls
\* neither the content generator nor the media generator.
C9_CachedStepCallsNothing ==
    \A w \in Workers :
        (inv[w].last.step # "" /\ inv[w].last.cached)
            => (inv[w].last.content = 0 /\ inv[w].last.media = 0)

\* C9 amended: a step that finds a valid entry under its step_key makes no
\* call to the content generator; create_image still calls the media generator
\* once (only its prompt is cached), the other steps do not call it.
C9_CachedStepSkipsContentGenerator ==
    \A w \in Workers :
        (inv[w].last.step # "" /\ inv[w].last.cached)
            => /\ inv[w].last.content = 0
               /\ inv[w].last.media = IF inv[w].last.step = "create_image" THEN 1 ELSE 0

C9_Witness ==
    \E w \in Workers :
        /\ inv[w].last.step = "create_image"
        /\ inv[w].last.cached
        /\ inv[w].last.media = 1

\* C10: after k invocations in a row that failed at the same step, with no
\* advance and no rewind between them, step_attempt is k.
C10_AttemptCountsConsecutiveFailures ==
    \A w \in Workers : FailedNow(w) => run[w].step_attempt = run[w].streak

\* C11: an I/O fault of the state store during an invocation is not turned into
\* a step failure: the orchestrator does not return a run marked
\* FAILED_RETRYABLE for it, and step_attempt and retry_at stay as they were
\* when the fault was raised.
C11_StorageFaultPropagates ==
    \A w \in Workers :
        inv[w].raised = StorageError =>
            /\ ~Returned(w)
            /\ run[w].status # FAILED_RETRYABLE
            /\ run[w].step_attempt = inv[w].pre_attempt
            /\ run[w].retry_at = inv[w].pre_retry_at

\* C12: a step that fails persists nothing: the block that raises leaves the
\* state store's entries and artifacts exactly as they were.
C12_FailedStepPersistsNothing ==
    [][\A w \in Workers :
          (pc[w] = "orch" /\ pc'[w] = "returned" /\ inv'[w].failed_at # "")
              => (state_files' = state_files /\ artifact_files' = artifact_files)]_vars

\* C13: save() replaces a key's value atomically: for a key that already
\* holds a value, every load(), whether it runs while a save of the key is in
\* progress or after one was interrupted, returns a complete value, the
\* previous one or the new one, never partial data and never absent.
C13_SaveIsAtomicReplace ==
    \A w \in Workers :
        seen[w].key # "" => (seen[w].found /\ seen[w].data \in StoreValues)

\* a rewind has just been applied by worker w
JustRewound(w) == pc[w] = "dispatch" /\ inv[w].target # ""

StateFileOf(name) == _sanitize_filename(WORKFLOW_STEPS[name].step_key, ".json")

C15_RewindResetsRun ==
    \A w \in Workers :
        JustRewound(w) =>
            /\ run[w].current_step = WORKFLOW_STEPS[inv[w].target].entry_state
            /\ run[w].status = RUNNING
            /\ run[w].step_attempt = 0
            /\ run[w].last_error_msg = ""
            /\ run[w].retry_at = NoTime

\* a run persisted as failed at copy_created, rewound to the first step
C15_Witness ==
    \E w \in Workers :
        /\ JustRewound(w)
        /\ inv[w].target = "dossier"
        /\ disk.run.status = FAILED_RETRYABLE
        /\ disk.run.step_attempt = 1
        /\ disk.run.retry_at # NoTime
        /\ disk.run.current_step = "copy_created"

\* C16 as stated: once the persisted run is COMPLETED, nothing changes its
\* status or its current_step.
C16_CompletedNeverChanges ==
    [][(disk.present /\ disk.run.status = COMPLETED) =>
          /\ disk'.run.status = COMPLETED
          /\ disk'.run.current_step = disk.run.current_step]_vars

\* C16 amended: an orchestrator invocation on a COMPLETED run, not rewound,
\* returns it COMPLETED at final_image_created, and the update that persists
\* it changes neither status nor current_step; only a rewind moves a
\* COMPLETED run back.
C16_CompletedStaysUnlessRewound ==
    [][\A w \in Workers :
          /\ (pc'[w] = "returned" /\ inv'[w].entry_status = COMPLETED /\ ~inv'[w].rewound)
                => /\ run'[w].status = COMPLETED
                   /\ run'[w].current_step = "final_image_created"
          /\ (pc[w] = "reloaded" /\ pc'[w] = "updated"
                /\ disk.run.status = COMPLETED /\ ~inv[w].rewound)
                => /\ disk'.run.status = COMPLETED
                   /\ disk'.run.current_step = disk.run.current_step]_vars

\* a worker loaded the COMPLETED run, ran the orchestrator without a rewind
\* and persisted the result
C16_Witness ==
    \E w \in Workers :
        /\ pc[w] = "updated"
        /\ inv[w].entry_status = COMPLETED
        /\ ~inv[w].rewound
        /\ disk.run = run[w]
        /\ disk.run.status = COMPLETED
        /\ disk.run.version = inv[w].base + 1

\* C17: in every run the orchestrator returns and in every persisted snapshot,
\* retry_at is set only if status is FAILED_RETRYABLE.
C17_RetryAtOnlyWhenFailed ==
    /\ \A w \in Workers :
          (Returned(w) /\ run[w].retry_at # NoTime) => run[w].status = FAILED_RETRYABLE
    /\ (disk.present /\ disk.run.retry_at # NoTime) => disk.run.status = FAILED_RETRYABLE

\* the entry_state of the StepConfigs registered for the workflow
RegisteredEntryStates == {WORKFLOW_STEPS[n].entry_state : n \in StepNames}

\* C18 as stated: current_step is always the entry_state of a registered
\* StepConfig.
C18_CurrentStepRegistered ==
    /\ \A w \in Workers : run[w].current_step \in RegisteredEntryStates
    /\ disk.present => disk.run.current_step \in RegisteredEntryStates

\* C18 amended: current_step is always the entry_state of a registered
\* StepConfig or the terminal state final_image_created, which no StepConfig
\* has as entry_state; it is final_image_created in every COMPLETED run.
C18_CurrentStepRegisteredOrTerminal ==
    /\ \A w \in Workers :
          /\ run[w].current_step \in RegisteredEntryStates \cup {"final_image_created"}
          /\ run[w].status = COMPLETED => run[w].current_step = "final_image_created"
    /\ disk.present =>
          /\ disk.run.current_step \in RegisteredEntryStates \cup {"final_image_created"}
          /\ disk.run.status = COMPLETED => disk.run.current_step = "final_image_created"

\* a completed run is persisted at the terminal state, and another worker has
\* rewound its copy to a registered entry state
C18_Witness ==
    \E w \in Workers :
        /\ disk.present
        /\ disk.run.status = COMPLETED
        /\ disk.run.current_step = "final_image_created"
        /\ JustRewound(w)
        /\ run[w].current_step = "dossier_created"

\* inside the `with lock:` block of update()
InsideLock(w) == pc[w] \in {"locked", "reloaded"}

\* C19: update releases the lock on every exit path: a worker whose update
\* has returned or raised does not hold it, and whenever no update is inside
\* its locked block the lock is free for the next one.
C19_LockReleasedOnEveryExit ==
    /\ \A w \in Workers : pc[w] \in UpdateExits => lock # w
    /\ (\A w \in Workers : ~InsideLock(w)) => lock = NoWorker

\* after an update that ended in a write failure, the other worker's update
\* has taken the lock
C19_Witness ==
    \E w1, w2 \in Workers :
        /\ pc[w1] = "writefail"
        /\ pc[w2] = "locked"
        /\ lock = w2

\* C20: an update that finds the lock held by another writer for its whole
\* wait ends in ConcurrencyError and leaves the persisted snapshot unchanged.
C20_TimeoutIsConcurrencyError ==
    [][\A w \in Workers :
          (pc[w] = "returned" /\ lock \notin {NoWorker, w} /\ pc'[w] # pc[w])
              => (pc'[w] = "conflict" /\ disk' = disk)]_vars

\* the update gave up without entering the locked block while the other
\* worker still holds the lock
C20_Witness ==
    \E w1, w2 \in Workers :
        /\ pc[w1] = "conflict"
        /\ existing[w1] = NoVersion
        /\ lock = w2
        /\ disk.run.version = inv[w1].base

\* the process behind worker w stopped inside a create or update, and the
\* slot has not started another call since
StoppedWriting(w) == inv[w].raised = "stopped"

\* C21: a process that stops at any point of create or update leaves
\* workflow_state.json readable: the file only ever changes from the previous
\* complete snapshot to the complete snapshot the writer was persisting, and
\* every get_by_id returns the complete snapshot on disk (absent before the
\* first create completes), never a partial or unreadable one
C21_SnapshotOldOrNew ==
    [][/\ disk' # disk =>
            \E w \in Workers :
                /\ pc[w] = "dumped"
                /\ run[w] # Partial
                /\ disk' = [present |-> TRUE, run |-> run[w]]
       /\ \A w \in Workers :
            seen'[w] # seen[w] /\ seen'[w] # NoSeen =>
                IF disk.present
                THEN seen'[w].found /\ seen'[w].data = disk.run /\ disk.run # Partial
                ELSE ~seen'[w].found]_vars

\* a writer stopped after a snapshot existed and the same slot then read the
\* snapshot back, while the other worker is in the middle of a write
C21_Witness ==
    \E w1, w2 \in Workers :
        /\ w1 # w2
        /\ StoppedWriting(w1)
        /\ inv[w1].base # 0
        /\ seen[w1].found
        /\ seen[w1].data = disk.run
        /\ pc[w2] = "tmp_made"

\* C22 (as stated): create for a run that is already persisted fails and
\* leaves the existing snapshot, version included, unchanged
C22_CreateExistingFails ==
    [][\A w \in Workers :
        (saving[w].key = "create" /\ inv[w].base # 0 /\ pc'[w] # pc[w])
            => disk' = disk]_vars

\* C22 (amended): a create that completes persists the run with version 1,
\* whether or not a snapshot was persisted when it began; create makes no
\* existence check and replaces an existing snapshot
C22_CreatePersistsVersionOne ==
    [][\A w \in Workers :
        (saving[w].key = "create" /\ pc[w] = "dumped" /\ pc'[w] = "idle" /\ ~StoppedWriting(w)')
            => (disk'.present /\ disk'.run = Created(NewRun) /\ disk'.run.version = 1)]_vars

\* a create replaced a snapshot that stood at a version above 1
C22_Witness ==
    \E w \in Workers :
        /\ pc[w] = "idle"
        /\ inv[w].base > 1
        /\ ~StoppedWriting(w)
        /\ run[w] = Created(NewRun)
        /\ disk = [present |-> TRUE, run |-> Created(NewRun)]

\* list_ready_for_execution has returned
Listed == result.op = "list_ready_for_execution"

\* the ready runs among the directories scanned
ReadyDirs == {i \in DOMAIN input.dirs : input.dirs[i].readable /\ IsReady(input.dirs[i], input.now)}

\* C23: list_ready_for_execution returns only runs that are PENDING, or
\* FAILED_RETRYABLE with retry_at <= now; at most limit of them, for every
\* limit >= 0; sorted by created_at ascending
C23_ListReadyBoundedSorted ==
    Listed =>
        /\ \A i \in DOMAIN result.runs :
              \/ result.runs[i].status = PENDING
              \/ /\ result.runs[i].status = FAILED_RETRYABLE
                 /\ result.runs[i].retry_at # NoTime
                 /\ result.runs[i].retry_at <= input.now
        /\ Len(result.runs) <= input.limit
        /\ \A i, j \in DOMAIN result.runs :
              i < j => result.runs[i].created_at <= result.runs[j].created_at

\* C24: when more than limit runs are ready (limit >= 1), the runs returned
\* are the limit oldest ready runs: limit runs come back and no ready run
\* older than a returned one is left out, so the oldest ready run is always
\* in the result
C24_OldestReadyFirst ==
    (Listed /\ input.limit >= 1 /\ Cardinality(ReadyDirs) > input.limit) =>
        /\ Len(result.runs) = input.limit
        /\ \A i \in ReadyDirs :
              input.dirs[i].created_at >= result.runs[Len(result.runs)].created_at
              \/ \E j \in DOMAIN result.runs : result.runs[j] = input.dirs[i]
        /\ \A i \in ReadyDirs : result.runs[1].created_at <= input.dirs[i].created_at

\* C26: for every attempt >= 0 the time returned is strictly after now, and
\* the wait w satisfies min(base * 2^attempt, max) <= w <= 1.1 * min(base *
\* 2^attempt, max) (in hundredths: 100 * m <= w <= 110 * m); the base wait is
\* non-decreasing in attempt and never exceeds max
C26_BackoffWithinEnvelope ==
    result.op = "next_retry_at" =>
        LET m == Min(BackoffBase * (2 ^ input.attempt), BackoffMax)
            w == result.retry_at - 100 * input.now
        IN  /\ result.retry_at > 100 * input.now
            /\ 100 * m <= w
            /\ w <= 110 * m
            /\ m <= BackoffMax
            /\ \A a \in 0..input.attempt :
                  Min(BackoffBase * (2 ^ a), BackoffMax) <= m

\* an attempt past the cap drew a non-zero jitter
C26_Witness ==
    /\ result.op = "next_retry_at"
    /\ BackoffBase * (2 ^ input.attempt) > BackoffMax
    /\ result.retry_at - 100 * input.now > 100 * BackoffMax

\* the last store operation was a delete
Deleted == result.op = "delete"

HoldsRun(w) == pc[w] # "idle"

\* C28: no key is ever removed from state_data, neither from the run a
\* process holds while it rewinds and invokes the orchestrator nor from the
\* persisted snapshot: the set of keys only grows
C28_StateDataKeysOnlyGrow ==
    [][/\ \A w \in Workers :
            (HoldsRun(w) /\ pc'[w] # "idle")
                => DOMAIN run[w].state_data \subseteq DOMAIN run'[w].state_data
       /\ (disk.present /\ disk'.present)
            => DOMAIN disk.run.state_data \subseteq DOMAIN disk'.run.state_data]_vars

\* a run rewound to its first step still holds the outputs of every step it
\* had completed
C28_Witness ==
    \E w \in Workers :
        /\ JustRewound(w)
        /\ inv[w].target = "dossier"
        /\ run[w].current_step = "start"
        /\ {"dossier_content", "title", "description", "generated_image_filename"}
              \subseteq DOMAIN run[w].state_data

\* the fields the steps after current_step read from state_data
HoldsRequiredFields(r) ==
    /\ r.current_step = "copy_created" =>
          /\ Get(r.state_data, "dossier_content") # ""
          /\ Get(r.state_data, "title") # ""
          /\ Get(r.state_data, "description") # ""
    /\ r.current_step = "image_created" =>
          /\ Get(r.state_data, "generated_image_filename") # ""
          /\ Get(r.state_data, "title") # ""

\* C30: whenever current_step is copy_created, state_data holds non-empty
\* dossier_content, title and description, and whenever it is image_created,
\* state_data holds generated_image_filename and a non-empty title; for the
\* run a process holds and for the persisted snapshot
C30_RequiredFieldsPresent ==
    /\ \A w \in Workers : HoldsRun(w) => HoldsRequiredFields(run[w])
    /\ disk.present => HoldsRequiredFields(disk.run)

\* C29: approve_post returns only for a post that was PENDING_APPROVAL, and
\* then the post is APPROVED with the given scheduled_at, saved exactly once
\* and audited exactly once; for a missing post or a post in any other
\* status it raises InvalidPostStateError without a save or an audit write
C29_ApproveOnlyPending ==
    result.op = "approve_post" =>
        /\ result.raised = "" =>
              /\ input.post # NoPost
              /\ input.post.status = PENDING_APPROVAL
              /\ result.post.status = APPROVED
              /\ result.post.scheduled_at = input.scheduled_at
              /\ result.saves = 1
              /\ result.audits = 1
        /\ (input.post = NoPost \/ input.post.status # PENDING_APPROVAL) =>
              /\ result.raised = "InvalidPostStateError"
              /\ result.saves = 0
              /\ result.audits = 0

\* a pending post that already carried a schedule was approved for a new time
C29_Witness ==
    /\ result.op = "approve_post"
    /\ result.raised = ""
    /\ input.post.status = PENDING_APPROVAL
    /\ input.post.scheduled_at = 3
    /\ result.post = [status |-> APPROVED, scheduled_at |-> 20]
    /\ result.saves = 1
    /\ result.audits = 1

\* the `dossie` texts the content generator can return (a cache entry holds
\* one of them)
DossieTexts == {resp.data["dossie"] : resp \in {d \in DossierResponses : "dossie" \in DOMAIN d.data}}

\* the invocation of worker w ran the dossier block first, with success, and
\* has returned from a failure of the block after it
DossierThenFailure(w) ==
    /\ Returned(w)
    /\ inv[w].first = "start"
    /\ inv[w].failed_at = "dossier_created"

\* C31: when the dossier step succeeds in an invocation and the step after
\* it does not complete, the returned run keeps the progress: dossier_content
\* is the dossie text of the generator (or of the cache) and current_step is
\* dossier_created
C31_DossierProgressKept ==
    \A w \in Workers :
        DossierThenFailure(w) =>
            /\ run[w].current_step = "dossier_created"
            /\ "dossier_content" \in DOMAIN run[w].state_data
            /\ run[w].state_data["dossier_content"] \in DossieTexts
            /\ run[w].status = FAILED_RETRYABLE

\* a freshly created run went through the dossier step and failed at copy
C31_Witness ==
    \E w \in Workers :
        /\ DossierThenFailure(w)
        /\ inv[w].entry_step = "start"
        /\ run[w].version = 1
        /\ run[w].state_data = [dossier_content |-> "D"]

\* C32: a rewind never moves a run forward: the entry state it sets is the
\* run's current_step or an earlier state of the registry's order
C32_RewindNeverForward ==
    [][\A w \in Workers :
        (pc[w] = "loaded" /\ pc'[w] = "dispatch")
            => StateIndex(run'[w].current_step) <= StateIndex(run[w].current_step)]_vars

\* C37: a rewind request naming an unregistered step changes nothing: no
\* state-store entry or artifact is deleted, the persisted run and its
\* version stay, and the process ends without invoking the orchestrator or
\* update
C37_InvalidRewindChangesNothing ==
    [][\A w \in Workers :
        (pc[w] = "loaded" /\ pc'[w] # pc[w] /\ inv'[w].target \notin StepNames \cup {""})
            => /\ state_files' = state_files
               /\ artifact_files' = artifact_files
               /\ disk' = disk
               /\ lock' = lock
               /\ pc'[w] = "idle"]_vars

\* an invalid rewind request was made on a completed run: caches, final
\* artifact and the snapshot are all still there
C37_Witness ==
    \E w \in Workers :
        /\ pc[w] = "idle"
        /\ inv[w].target = UnregisteredStep
        /\ disk.run.status = COMPLETED
        /\ StateFileOf("dossier") \in DOMAIN state_files
        /\ ArtifactExists(artifact_files, "final_post.jpg")

\* C34: the run an invocation returns is COMPLETED or FAILED_RETRYABLE,
\* never PENDING or RUNNING, and it is COMPLETED exactly when its
\* current_step is final_image_created
C34_ReturnedStatus ==
    \A w \in Workers :
        Returned(w) =>
            /\ run[w].current_step \in {StateOrder[i] : i \in 1..Len(StateOrder)}
            /\ run[w].status \in {COMPLETED, FAILED_RETRYABLE}
            /\ (run[w].status = COMPLETED
                    <=> run[w].current_step = "final_image_created")

\* one invocation returned a completed run it had entered before the last
\* step, another returned a failed one
C34_Witness ==
    \E w, v \in Workers :
        /\ Returned(w)
        /\ run[w].status = COMPLETED
        /\ inv[w].entry_step # "final_image_created"
        /\ Returned(v)
        /\ run[v].status = FAILED_RETRYABLE

\* C36: no run, in memory or persisted, is ever FAILED_PERMANENT; a failed
\* invocation returns FAILED_RETRYABLE with a retry_at, however many
\* failures came before it, and a run in that status is eligible for
\* execution as soon as the clock reaches its retry_at
C36_FailuresStayRetryable ==
    /\ \A w \in Workers : run[w].status # FAILED_PERMANENT
    /\ disk.present => disk.run.status # FAILED_PERMANENT
    /\ \A w \in Workers :
          FailedNow(w) =>
              /\ run[w].status = FAILED_RETRYABLE
              /\ run[w].retry_at # NoTime
              /\ IsReady(run[w], run[w].retry_at)
    /\ (disk.present /\ disk.run.status = FAILED_RETRYABLE)
          => IsReady(disk.run, disk.run.retry_at)

\* a second failure in a row at the same step was returned and persisted
C36_Witness ==
    \E w \in Workers :
        /\ pc[w] = "updated"
        /\ inv[w].failed_at # ""
        /\ inv[w].failed_at = inv[w].entry_step
        /\ inv[w].entry_status = FAILED_RETRYABLE
        /\ run[w].streak >= 2
        /\ disk.run.status = FAILED_RETRYABLE
        /\ disk.run.streak >= 2

\* no process holds the run: every started one has ended
Quiescent == \A w \in Workers : pc[w] = "idle"

\* C35: whenever the persisted snapshot is COMPLETED, the final artifact its
\* state_data names exists in the state store
C35_CompletedHasFinalArtifact ==
    (disk.present /\ disk.run.status = COMPLETED)
        => /\ "final_image_filename" \in DOMAIN disk.run.state_data
           /\ ArtifactExists(artifact_files, disk.run.state_data["final_image_filename"])

\* the same, asked only once every process has ended
C35_AtRest ==
    Quiescent => C35_CompletedHasFinalArtifact

\* a re-invocation of a FAILED_RETRYABLE run, without a rewind, has returned
\* and nothing its collaborators or the state store did made it fail
FaultFreeRetry(w) ==
    /\ Returned(w)
    /\ inv[w].entry_status = FAILED_RETRYABLE
    /\ \A v \in Workers : ~inv[v].rewound
    /\ inv[w].raised \notin EnvironmentFaults

\* C33: once every collaborator and storage call succeeds with well-formed
\* results, re-invoking a FAILED_RETRYABLE run brings it to COMPLETED: such an
\* invocation runs every remaining step and does not fail again at the step
\* it entered at
C33_FaultFreeRetryCompletes ==
    \A w \in Workers :
        FaultFreeRetry(w) => run[w].status = COMPLETED

\* a fault-free retry returned the run as it had loaded it: same step, same
\* status, same attempt count and state_data, so the next retry starts from
\* the same place
C33_RetryIsFixedPoint ==
    \E w \in Workers :
        /\ FaultFreeRetry(w)
        /\ inv[w].entry_step = "dossier_created"
        /\ disk.present
        /\ run[w].version = disk.run.version
        /\ run[w].current_step = disk.run.current_step
        /\ run[w].status = disk.run.status
        /\ run[w].step_attempt = disk.run.step_attempt
        /\ run[w].retry_at = disk.run.retry_at
        /\ run[w].state_data = disk.run.state_data
        /\ run[w].last_error_msg = disk.run.last_error_msg

====
